---- MODULE Spec2Model ----
(***************************************************************************)
(* Gowershell: a line-oriented command executor (src/main.go).             *)
(*                                                                         *)
(* The module models                                                       *)
(*   - the read loop of main: scan a line, unmarshal it into a Request     *)
(*     (with the bare-command fallback), executeCommand, print a line;     *)
(*   - executeCommand: interpreter selection, window-visibility mode,      *)
(*     the verbose trace, the Response;                                    *)
(*   - the output normaliser: processOutput, isUTF16, decodeUTF16.         *)
(*                                                                         *)
(* Go strings are byte strings: a text is modelled as the sequence of its  *)
(* UTF-8 bytes wherever the bytes matter (process output, Response.Output) *)
(* and as an opaque TLA+ string where only its identity matters (command   *)
(* text, argument list, error text).                                       *)
(***************************************************************************)
EXTENDS Integers, Sequences, FiniteSets, TLC

VARIABLES
    goos,       \* runtime.GOOS of the build
    pc,         \* position of main: "scan", "wait" (in CombinedOutput), "print", "done"
    eof,        \* scanner.Scan() returned false because stdin ended
    scanErr,    \* scanner.Scan() returned false with bufio.ErrTooLong
    stdinLog,   \* history: for each line taken from stdin, whether it was non-empty
    stdout,     \* for each line printed, the number of the input line it answers
    line,       \* scanner.Text() of the current iteration
    req,        \* the Request handed to executeCommand
    cmd,        \* the *exec.Cmd built by executeCommand
    debugInfo,  \* the strings.Builder of executeCommand, a sequence of trace lines
    output,     \* bytes returned by cmd.CombinedOutput()
    err,        \* error returned by cmd.CombinedOutput(): <<>> is nil, <<msg>> an error
    resp,       \* the Response returned by executeCommand
    data,       \* normaliser harness: the byte buffer under test
    src,        \* normaliser harness: how data was produced
    utf16,      \* normaliser harness: isUTF16(data)
    decoded     \* normaliser harness: decodeUTF16(data)

loopVars == <<goos, pc, eof, scanErr, stdinLog, stdout, line, req, cmd,
              debugInfo, output, err, resp>>
normVars == <<data, src, utf16, decoded>>
vars == <<goos, pc, eof, scanErr, stdinLog, stdout, line, req, cmd,
          debugInfo, output, err, resp, data, src, utf16, decoded>>

-----------------------------------------------------------------------------
(* Bounds *)

MaxLines == 3       \* lines taken from stdin in one run
MaxDuration == 1    \* largest elapsed time, in milliseconds
MaxBufLen == 20     \* longest raw buffer given to the normaliser
MaxTextLen == 3     \* longest text (in code points) encoded for the round trip

(* Program constants *)

CREATE_NEW_CONSOLE == 16
MaxScanTokenSize == 65536

-----------------------------------------------------------------------------
(* Bytes and texts *)

RECURSIVE Concat(_)
Concat(ss) == IF ss = <<>> THEN <<>> ELSE Head(ss) \o Concat(Tail(ss))

SeqToSet(s) == {s[i] : i \in 1..Len(s)}

-----------------------------------------------------------------------------
(* Input lines.  A line is its raw text, its size in bytes, and what the   *)
(* JSON grammar makes of it: not JSON at all ("invalid"), a JSON value     *)
(* that is no object ("scalar"), or an object whose members are tokens.    *)

Quote(s) == "\"" \o s \o "\""

Commands == {"echo hi", "exit 1"}
TypeNames == {"cmd", "powershell", "ps", "wsl", "", "zsh"}
KnownStrings == Commands \cup TypeNames \cup {"yes"}

AbsentTok == [kind |-> "absent", tok |-> ""]
NumberTok == [kind |-> "number", tok |-> "5"]
StringTok(s) == [kind |-> "string", tok |-> Quote(s)]
BoolTok(b) == [kind |-> "bool", tok |-> IF b THEN "true" ELSE "false"]

RECURSIVE JoinMembers(_)
JoinMembers(ms) ==
    IF ms = <<>> THEN ""
    ELSE LET m == Head(ms)
             rest == JoinMembers(Tail(ms))
         IN IF m[2].kind = "absent" THEN rest
            ELSE Quote(m[1]) \o ":" \o m[2].tok
                 \o (IF rest = "" THEN "" ELSE "," \o rest)

ObjectText(doc) ==
    "{" \o JoinMembers(<<
        <<"command", doc.command>>, <<"type", doc.type>>,
        <<"headless", doc.headless>>, <<"verbose", doc.verbose>>,
        <<"persist_window", doc.persist_window>> >>) \o "}"

Docs ==
    [command : {StringTok(c) : c \in Commands},
     type : {AbsentTok, NumberTok} \cup {StringTok(t) : t \in TypeNames},
     headless : {AbsentTok, BoolTok(TRUE), BoolTok(FALSE), StringTok("yes")},
     verbose : {AbsentTok, BoolTok(TRUE), BoolTok(FALSE)},
     persist_window : {AbsentTok, BoolTok(TRUE)}]

NoDoc == [command |-> AbsentTok, type |-> AbsentTok, headless |-> AbsentTok,
          verbose |-> AbsentTok, persist_window |-> AbsentTok]

ObjectLine(doc) ==
    [text |-> ObjectText(doc), size |-> Len(ObjectText(doc)),
     syntax |-> "object", doc |-> doc]

EmptyLine == [text |-> "", size |-> 0, syntax |-> "invalid", doc |-> NoDoc]
BareLine == [text |-> "echo hi", size |-> 7, syntax |-> "invalid", doc |-> NoDoc]
ScalarLine == [text |-> Quote("echo hi"), size |-> 9, syntax |-> "scalar", doc |-> NoDoc]
\* a line of MaxScanTokenSize bytes; its text is abbreviated
LongLine == [text |-> "echo <64KiB>", size |-> MaxScanTokenSize,
             syntax |-> "invalid", doc |-> NoDoc]

Lines == {EmptyLine, BareLine, ScalarLine, LongLine} \cup {ObjectLine(d) : d \in Docs}

-----------------------------------------------------------------------------
(* json.Unmarshal([]byte(line), &req) into a zero Request.  A syntax error *)
(* is found before anything is stored.  A member whose JSON type does not  *)
(* fit its field is skipped, the error is remembered, and decoding goes    *)
(* on: the fields of the other members are stored all the same.            *)

ZeroRequest ==
    [Command |-> "", Type |-> "", Headless |-> FALSE, Verbose |-> FALSE,
     PersistWindow |-> FALSE]

Unquote(tok) == CHOOSE s \in KnownStrings : Quote(s) = tok

DecodeString(m) == IF m.kind = "string" THEN Unquote(m.tok) ELSE ""
DecodeBool(m) == IF m.kind = "bool" THEN m.tok = "true" ELSE FALSE

Mismatch(m, kind) == m.kind \notin {"absent", kind}

Unmarshal(ln) ==
    IF ln.syntax # "object"
    THEN [req |-> ZeroRequest, err |-> TRUE]
    ELSE [req |-> [Command |-> DecodeString(ln.doc.command),
                   Type |-> DecodeString(ln.doc.type),
                   Headless |-> DecodeBool(ln.doc.headless),
                   Verbose |-> DecodeBool(ln.doc.verbose),
                   PersistWindow |-> DecodeBool(ln.doc.persist_window)],
          err |-> \/ Mismatch(ln.doc.command, "string")
                  \/ Mismatch(ln.doc.type, "string")
                  \/ Mismatch(ln.doc.headless, "bool")
                  \/ Mismatch(ln.doc.verbose, "bool")
                  \/ Mismatch(ln.doc.persist_window, "bool")]

(* main, lines 45-51: the Request of one loop iteration *)
ParseRequest(ln) ==
    LET u == Unmarshal(ln)
    IN IF u.err
       THEN [u.req EXCEPT !.Command = ln.text, !.Type = "cmd", !.Headless = TRUE]
       ELSE u.req


-----------------------------------------------------------------------------
(* The output normaliser (src/main.go, 155-242) *)

(* string(rune): the UTF-8 bytes of one rune; a rune that is no Unicode    *)
(* scalar value becomes U+FFFD                                             *)
EncodeRune(r) ==
    IF r < 0 \/ r > 1114111 \/ (r >= 55296 /\ r <= 57343)
    THEN <<239, 191, 189>>
    ELSE IF r < 128 THEN <<r>>
    ELSE IF r < 2048 THEN <<192 + (r \div 64), 128 + (r % 64)>>
    ELSE IF r < 65536
         THEN <<224 + (r \div 4096), 128 + ((r \div 64) % 64), 128 + (r % 64)>>
    ELSE <<240 + (r \div 262144), 128 + ((r \div 4096) % 64),
           128 + ((r \div 64) % 64), 128 + (r % 64)>>

(* string(runes) *)
RECURSIVE RunesToString(_)
RunesToString(rs) ==
    IF rs = <<>> THEN <<>> ELSE EncodeRune(Head(rs)) \o RunesToString(Tail(rs))

IsHighSurrogate(u) == u >= 55296 /\ u < 56320
IsLowSurrogate(u) == u >= 56320 /\ u < 57344

(* utf16.Decode: a surrogate pair is one rune, a lone surrogate is U+FFFD *)
RECURSIVE Utf16Decode(_)
Utf16Decode(us) ==
    IF us = <<>> THEN <<>>
    ELSE LET u == Head(us)
         IN IF ~IsHighSurrogate(u) /\ ~IsLowSurrogate(u)
            THEN <<u>> \o Utf16Decode(Tail(us))
            ELSE IF IsHighSurrogate(u) /\ Len(us) >= 2 /\ IsLowSurrogate(us[2])
            THEN <<65536 + (u - 55296) * 1024 + (us[2] - 56320)>>
                 \o Utf16Decode(Tail(Tail(us)))
            ELSE <<65533>> \o Utf16Decode(Tail(us))

HasBOM(d) ==
    /\ Len(d) >= 2
    /\ \/ d[1] = 255 /\ d[2] = 254
       \/ d[1] = 254 /\ d[2] = 255

(* the loop of isUTF16, lines 191-196: zero bytes at i = 1, 3, 5, ...      *)
(* (0-indexed) from position i on                                          *)
RECURSIVE NullCount(_, _)
NullCount(d, i) ==
    IF i >= Len(d) THEN 0
    ELSE (IF d[i + 1] = 0 THEN 1 ELSE 0) + NullCount(d, i + 2)

(* isUTF16 without the length gate of line 190 *)
isUTF16_NoLengthGate(d) ==
    IF HasBOM(d) THEN TRUE
    ELSE IF Len(d) % 2 = 0 /\ Len(d) > 0
    THEN 10 * NullCount(d, 1) > 3 * (Len(d) \div 2)
    ELSE FALSE

(* float64(nullCount)/float64(len/2) > 0.3: the quotient of two small      *)
(* integers exceeds the double nearest to 0.3 exactly when it exceeds 3/10 *)
isUTF16(d) ==
    IF HasBOM(d) THEN TRUE
    ELSE IF Len(d) % 2 = 0 /\ Len(d) > 10
    THEN 10 * NullCount(d, 1) > 3 * (Len(d) \div 2)
    ELSE FALSE

(* lines 230-237: the 16-bit code units of an even-length buffer *)
RECURSIVE CodeUnits(_, _)
CodeUnits(d, littleEndian) ==
    IF Len(d) < 2 THEN <<>>
    ELSE <<IF littleEndian THEN d[1] + 256 * d[2] ELSE d[2] + 256 * d[1]>>
         \o CodeUnits(Tail(Tail(d)), littleEndian)

(* decodeUTF16 that notes the byte order of the mark but leaves the mark  *)
(* in the buffer (start stays 0)                                           *)
decodeUTF16_KeepsMark(d) ==
    LET littleEndian == ~(Len(d) >= 2 /\ d[1] = 254 /\ d[2] = 255)
    IN IF Len(d) % 2 # 0
       THEN d
       ELSE RunesToString(Utf16Decode(CodeUnits(d, littleEndian)))

(* decodeUTF16 without the parity check of lines 225-227: the last byte   *)
(* of an odd buffer is dropped by the pairing loop                         *)
decodeUTF16_PairsOdd(d) ==
    LET start == IF HasBOM(d) THEN 2 ELSE 0
        littleEndian == ~(Len(d) >= 2 /\ d[1] = 254 /\ d[2] = 255)
        rest == SubSeq(d, start + 1, Len(d))
    IN RunesToString(Utf16Decode(CodeUnits(rest, littleEndian)))

decodeUTF16(d) ==
    LET start == IF HasBOM(d) THEN 2 ELSE 0
        littleEndian == ~(Len(d) >= 2 /\ d[1] = 254 /\ d[2] = 255)
        rest == SubSeq(d, start + 1, Len(d))
    IN IF Len(rest) % 2 # 0
       THEN rest
       ELSE RunesToString(Utf16Decode(CodeUnits(rest, littleEndian)))

(* processOutput that writes its trace line whether verbose or not *)
processOutput_AlwaysTraces(d, verbose, dbg) ==
    IF Len(d) = 0 THEN [text |-> <<>>, debugInfo |-> dbg]
    ELSE IF isUTF16(d)
    THEN [text |-> decodeUTF16(d),
          debugInfo |-> dbg \o <<"UTF-16 encoding detected, decoding...\n">>]
    ELSE [text |-> d,
          debugInfo |-> dbg \o <<"Using standard UTF-8 processing\n">>]

(* processOutput returns the text and appends to the trace it was given *)
processOutput(d, verbose, dbg) ==
    IF Len(d) = 0 THEN [text |-> <<>>, debugInfo |-> dbg]
    ELSE IF isUTF16(d)
    THEN [text |-> decodeUTF16(d),
          debugInfo |-> IF verbose
                        THEN dbg \o <<"UTF-16 encoding detected, decoding...\n">>
                        ELSE dbg]
    ELSE [text |-> d,
          debugInfo |-> IF verbose
                        THEN dbg \o <<"Using standard UTF-8 processing\n">>
                        ELSE dbg]

(* strings.TrimSpace: the encodings of the runes unicode.IsSpace accepts *)
SpaceRunes ==
    {<<9>>, <<10>>, <<11>>, <<12>>, <<13>>, <<32>>, <<194, 133>>, <<194, 160>>,
     <<225, 154, 128>>, <<226, 128, 168>>, <<226, 128, 169>>, <<226, 128, 175>>,
     <<226, 129, 159>>, <<227, 128, 128>>}
    \cup {<<226, 128, b>> : b \in 128..138}

HasPrefix(s, w) == Len(s) >= Len(w) /\ SubSeq(s, 1, Len(w)) = w
HasSuffix(s, w) == Len(s) >= Len(w) /\ SubSeq(s, Len(s) - Len(w) + 1, Len(s)) = w

RECURSIVE TrimLeft(_)
TrimLeft(s) ==
    IF \E w \in SpaceRunes : HasPrefix(s, w)
    THEN LET w == CHOOSE x \in SpaceRunes : HasPrefix(s, x)
         IN TrimLeft(SubSeq(s, Len(w) + 1, Len(s)))
    ELSE s

RECURSIVE TrimRight(_)
TrimRight(s) ==
    IF \E w \in SpaceRunes : HasSuffix(s, w)
    THEN LET w == CHOOSE x \in SpaceRunes : HasSuffix(s, x)
         IN TrimRight(SubSeq(s, 1, Len(s) - Len(w)))
    ELSE s

TrimSpace(s) == TrimRight(TrimLeft(s))


-----------------------------------------------------------------------------
(* The dispatcher: executeCommand (src/main.go, 60-153) *)

(* exec.Command(name, arg...): Args is the name followed by the arguments, *)
(* SysProcAttr is not set                                                  *)
Command(name, arg) ==
    [Args |-> <<name>> \o arg, HideWindow |-> FALSE, CreationFlags |-> 0]

NoCommand == [Args |-> <<>>, HideWindow |-> FALSE, CreationFlags |-> 0]

(* lines 72-79: the interpreter chosen by req.Type *)
InterpreterCmd(r) ==
    IF r.Type \in {"powershell", "ps"}
    THEN Command("powershell", <<"-Command", r.Command>>)
    ELSE IF r.Type = "wsl"
    THEN Command("wsl", <<"--", "bash", "-c", r.Command>>)
    ELSE Command("cmd", <<"/C", r.Command>>)

(* WindowCmd that forgets the creation flag of the headed Windows branch *)
WindowCmd_NoConsoleFlag(r, os) ==
    IF r.Headless
    THEN [InterpreterCmd(r) EXCEPT !.HideWindow = TRUE]
    ELSE IF os = "windows"
    THEN IF r.Type \in {"powershell", "ps"}
         THEN Command("powershell", <<"-NoExit", "-Command", r.Command>>)
         ELSE IF r.Type = "wsl"
         THEN Command("cmd", <<"/C", "start", "wsl", "--", "bash", "-c",
                  r.Command \o "; read -p 'Press Enter to close...'">>)
         ELSE Command("cmd", <<"/C", "start", "cmd", "/K", r.Command>>)
    ELSE IF r.Type \in {"powershell", "ps"}
         THEN Command("pwsh", <<"-Command", r.Command>>)
         ELSE Command("bash", <<"-c", r.Command>>)

(* lines 82-123: the window-visibility mode chosen by req.Headless *)
WindowCmd(r, os) ==
    IF r.Headless
    THEN [InterpreterCmd(r) EXCEPT !.HideWindow = TRUE]
    ELSE IF os = "windows"
    THEN LET c == IF r.Type \in {"powershell", "ps"}
                  THEN Command("powershell", <<"-NoExit", "-Command", r.Command>>)
                  ELSE IF r.Type = "wsl"
                  THEN Command("cmd", <<"/C", "start", "wsl", "--", "bash", "-c",
                           r.Command \o "; read -p 'Press Enter to close...'">>)
                  ELSE Command("cmd", <<"/C", "start", "cmd", "/K", r.Command>>)
         IN [c EXCEPT !.HideWindow = FALSE, !.CreationFlags = CREATE_NEW_CONSOLE]
    ELSE IF r.Type \in {"powershell", "ps"}
         THEN Command("pwsh", <<"-Command", r.Command>>)
         ELSE Command("bash", <<"-c", r.Command>>)

BoolText(b) == IF b THEN "true" ELSE "false"

(* the trace written before the process is started: lines 65-68, 87-89,    *)
(* 120-122 and 125-127.  The builder is a sequence of text pieces.         *)
StartTrace(r, c) ==
    IF r.Verbose
    THEN <<"Executing command: ", r.Command, "\n",
           "Type: ", r.Type, ", Headless: ", BoolText(r.Headless),
           ", PersistWindow: ", BoolText(r.PersistWindow), "\n">>
         \o (IF r.Headless
             THEN <<"Running in headless mode (window hidden)\n">>
             ELSE <<"Running in headed mode (new window created)\n">>)
         \o <<"Command args: [">> \o c.Args \o <<"]\n">>
    ELSE <<>>

ZeroResponse == [Output |-> <<>>, Error |-> "", Duration |-> 0, Debug |-> <<>>]

(* executeCommand that gives up on a failed process: the error is         *)
(* reported and the captured output is dropped                             *)
FinishCommand_DropsOutputOnError(r, dbg, out, e, elapsed) ==
    LET p == processOutput(out, r.Verbose, dbg)
        failed == e # <<>>
        dbg2 == IF failed /\ r.Verbose
                THEN p.debugInfo \o <<"Command failed with error: ", e[1], "\n">>
                ELSE p.debugInfo
        dbg3 == IF r.Verbose
                THEN dbg2 \o <<"Execution completed in ", ToString(elapsed), "ms\n">>
                ELSE dbg2
    IN [debugInfo |-> dbg3,
        resp |-> [Output |-> IF failed THEN <<>> ELSE TrimSpace(p.text),
                  Error |-> IF failed THEN e[1] ELSE "",
                  Duration |-> elapsed,
                  Debug |-> IF r.Verbose THEN dbg3 ELSE <<>>]]

(* lines 129-152: what executeCommand does once CombinedOutput has         *)
(* returned out and e after elapsed milliseconds                           *)
FinishCommand(r, dbg, out, e, elapsed) ==
    LET p == processOutput(out, r.Verbose, dbg)
        failed == e # <<>>
        dbg2 == IF failed /\ r.Verbose
                THEN p.debugInfo \o <<"Command failed with error: ", e[1], "\n">>
                ELSE p.debugInfo
        dbg3 == IF r.Verbose
                THEN dbg2 \o <<"Execution completed in ", ToString(elapsed), "ms\n">>
                ELSE dbg2
    IN [debugInfo |-> dbg3,
        resp |-> [Output |-> TrimSpace(p.text),
                  Error |-> IF failed THEN e[1] ELSE "",
                  Duration |-> elapsed,
                  Debug |-> IF r.Verbose THEN dbg3 ELSE <<>>]]

-----------------------------------------------------------------------------
(* What a spawned process can do *)

ExitError == <<"exit status 1">>
SpawnError == <<"exec: \"cmd\": executable file not found in %PATH%">>

Outputs ==
    {<<>>,
     <<32, 104, 105, 13, 10>>,                           \* " hi\r\n"
     <<255, 254, 104, 0, 105, 0, 13, 0, 10, 0>>,         \* "hi\r\n", UTF-16 LE with mark
     <<104, 0, 101, 0, 108, 0, 108, 0, 111, 0, 10, 0>>}  \* "hello\n", UTF-16 LE, no mark

Outcomes ==
    {[out |-> o, err |-> e] : o \in Outputs, e \in {<<>>, ExitError}}
    \cup {[out |-> <<>>, err |-> SpawnError]}


-----------------------------------------------------------------------------
(* The read loop of main (src/main.go, 36-58) *)

RawSource == [kind |-> "raw", text |-> <<>>, littleEndian |-> TRUE]

NormIdle ==
    /\ data = <<>>
    /\ src = RawSource
    /\ utf16 = FALSE
    /\ decoded = <<>>

LoopStart ==
    /\ pc = "scan"
    /\ eof = FALSE
    /\ scanErr = FALSE
    /\ stdinLog = <<>>
    /\ stdout = <<>>
    /\ line = EmptyLine
    /\ req = ZeroRequest
    /\ cmd = NoCommand
    /\ debugInfo = <<>>
    /\ output = <<>>
    /\ err = <<>>
    /\ resp = ZeroResponse

Init ==
    /\ goos \in {"windows", "linux"}
    /\ LoopStart
    /\ NormIdle

(* scanner.Scan() returns false: stdin has ended *)
ScanEOF ==
    /\ pc = "scan"
    /\ pc' = "done"
    /\ eof' = TRUE
    /\ UNCHANGED <<goos, scanErr, stdinLog, stdout, line, req, cmd, debugInfo,
                   output, err, resp>>
    /\ UNCHANGED normVars

(* scanner.Scan() returns false: the next line does not fit the scanner's  *)
(* buffer (bufio.ErrTooLong); main does not look at scanner.Err()          *)
ScanTooLong ==
    /\ pc = "scan"
    /\ Len(stdinLog) < MaxLines
    /\ \E ln \in Lines :
        /\ ln.size >= MaxScanTokenSize
        /\ stdinLog' = Append(stdinLog, TRUE)
    /\ pc' = "done"
    /\ scanErr' = TRUE
    /\ UNCHANGED <<goos, eof, stdout, line, req, cmd, debugInfo, output, err, resp>>
    /\ UNCHANGED normVars

(* lines 40-43: an empty line is skipped *)
ScanEmpty ==
    /\ pc = "scan"
    /\ Len(stdinLog) < MaxLines
    /\ \E ln \in Lines :
        /\ ln.size < MaxScanTokenSize
        /\ ln.text = ""
        /\ stdinLog' = Append(stdinLog, FALSE)
    /\ UNCHANGED <<goos, pc, eof, scanErr, stdout, line, req, cmd, debugInfo,
                   output, err, resp>>
    /\ UNCHANGED normVars

(* lines 40-53 and 60-129: a non-empty line is read and parsed, and        *)
(* executeCommand runs up to the call of cmd.CombinedOutput()              *)
Dispatch ==
    /\ pc = "scan"
    /\ Len(stdinLog) < MaxLines
    /\ \E ln \in Lines :
        /\ ln.size < MaxScanTokenSize
        /\ ln.text # ""
        /\ line' = ln
        /\ stdinLog' = Append(stdinLog, TRUE)
        /\ LET r == ParseRequest(ln)
               c == WindowCmd(r, goos)
           IN /\ req' = r
              /\ cmd' = c
              /\ debugInfo' = StartTrace(r, c)
    /\ pc' = "wait"
    /\ UNCHANGED <<goos, eof, scanErr, stdout, output, err, resp>>
    /\ UNCHANGED normVars

(* lines 129-153: cmd.CombinedOutput() returns (the process is over, or   *)
(* could not be started) and executeCommand builds the Response            *)
Finish ==
    /\ pc = "wait"
    /\ \E o \in Outcomes, elapsed \in 0..MaxDuration :
        LET f == FinishCommand(req, debugInfo, o.out, o.err, elapsed)
        IN /\ output' = o.out
           /\ err' = o.err
           /\ debugInfo' = f.debugInfo
           /\ resp' = f.resp
    /\ pc' = "print"
    /\ UNCHANGED <<goos, eof, scanErr, stdinLog, stdout, line, req, cmd>>
    /\ UNCHANGED normVars

(* lines 55-57: the Response is printed on one line and the iteration      *)
(* ends; req, resp and the other locals of the iteration are gone          *)
PrintResponse ==
    /\ pc = "print"
    /\ stdout' = Append(stdout, Len(stdinLog))
    /\ pc' = "scan"
    /\ line' = EmptyLine
    /\ req' = ZeroRequest
    /\ cmd' = NoCommand
    /\ debugInfo' = <<>>
    /\ output' = <<>>
    /\ err' = <<>>
    /\ resp' = ZeroResponse
    /\ UNCHANGED <<goos, eof, scanErr, stdinLog>>
    /\ UNCHANGED normVars

Next == ScanEOF \/ ScanTooLong \/ ScanEmpty \/ Dispatch \/ Finish \/ PrintResponse

Spec == Init /\ [][Next]_vars

-----------------------------------------------------------------------------
(* The normaliser on its own: buffers grown byte by byte, and buffers that *)
(* are the UTF-16 encoding of a text behind a byte-order mark              *)

(* the bytes tried at 0-indexed position i of a raw buffer *)
ByteChoices(i) ==
    IF i = 0 THEN {255, 254, 65, 0}
    ELSE IF i = 1 THEN {254, 255, 65, 0}
    ELSE IF i % 2 = 1 THEN {0, 65}
    ELSE {65}

CodePoints == {65, 233, 8364, 65279, 128512, 1114111}

EncodeUnits(cp) ==
    IF cp < 65536 THEN <<cp>>
    ELSE <<55296 + ((cp - 65536) \div 1024), 56320 + ((cp - 65536) % 1024)>>

UnitBytes(u, littleEndian) ==
    IF littleEndian THEN <<u % 256, u \div 256>> ELSE <<u \div 256, u % 256>>

RECURSIVE EncodeUTF16(_, _)
EncodeUTF16(t, littleEndian) ==
    IF t = <<>> THEN <<>>
    ELSE LET us == EncodeUnits(Head(t))
         IN Concat([i \in 1..Len(us) |-> UnitBytes(us[i], littleEndian)])
            \o EncodeUTF16(Tail(t), littleEndian)

Mark(littleEndian) == IF littleEndian THEN <<255, 254>> ELSE <<254, 255>>

Normalise(d) ==
    /\ data' = d
    /\ utf16' = isUTF16(d)
    /\ decoded' = decodeUTF16(d)

AppendByte ==
    /\ src.kind = "raw"
    /\ Len(data) < MaxBufLen
    /\ \E b \in ByteChoices(Len(data)) : Normalise(Append(data, b))
    /\ UNCHANGED src
    /\ UNCHANGED loopVars

StartText ==
    /\ src.kind = "raw"
    /\ data = <<>>
    /\ \E le \in BOOLEAN :
        /\ src' = [kind |-> "text", text |-> <<>>, littleEndian |-> le]
        /\ Normalise(Mark(le))
    /\ UNCHANGED loopVars

AppendRune ==
    /\ src.kind = "text"
    /\ Len(src.text) < MaxTextLen
    /\ \E cp \in CodePoints :
        LET t == Append(src.text, cp)
        IN /\ src' = [src EXCEPT !.text = t]
           /\ Normalise(Mark(src.littleEndian) \o EncodeUTF16(t, src.littleEndian))
    /\ UNCHANGED loopVars

InitNorm ==
    /\ goos = "windows"
    /\ LoopStart
    /\ NormIdle

NextNorm == AppendByte \/ StartText \/ AppendRune

SpecNorm == InitNorm /\ [][NextNorm]_vars


-----------------------------------------------------------------------------
(* Properties of the dispatcher and the read loop, checked under Spec *)

Dispatched == pc \in {"wait", "print"}

(* C1: a request that omits both type and headless is dispatched exactly   *)
(* as the same request with type "cmd" and headless true: same argument    *)
(* list, same window-visibility attributes.                                *)
C1_OmittedFieldsDefault ==
    (/\ Dispatched
     /\ line.syntax = "object"
     /\ ~Unmarshal(line).err
     /\ line.doc.type.kind = "absent"
     /\ line.doc.headless.kind = "absent")
    => cmd = WindowCmd(
                ParseRequest(ObjectLine([line.doc EXCEPT
                    !.type = StringTok("cmd"), !.headless = BoolTok(TRUE)])),
                goos)

(* C2: for a line that fails to parse, the executed request has the whole  *)
(* raw line as command, type cmd, headless true and verbose false.         *)
C2_FallbackRequest ==
    (Dispatched /\ Unmarshal(line).err)
    => /\ req.Command = line.text
       /\ req.Type = "cmd"
       /\ req.Headless = TRUE
       /\ req.Verbose = FALSE

(* the numbers of the non-empty lines among the first n lines taken from stdin *)
RECURSIVE NonEmptyUpTo(_)
NonEmptyUpTo(n) ==
    IF n = 0 THEN <<>>
    ELSE NonEmptyUpTo(n - 1) \o (IF stdinLog[n] THEN <<n>> ELSE <<>>)

(* C3: the loop prints exactly one response per non-empty input line, in   *)
(* input order; the response of a line is printed before the next line is  *)
(* read; and the loop stops only at the end of the input.                  *)
C3_OneResponsePerLine ==
    /\ pc = "done" => eof
    /\ pc \in {"scan", "done"} => stdout = NonEmptyUpTo(Len(stdinLog))
    /\ Dispatched => /\ stdinLog # <<>>
                     /\ stdout = NonEmptyUpTo(Len(stdinLog) - 1)

(* C4: in headless mode powershell/ps runs `powershell -Command <command>`,*)
(* wsl runs `wsl -- bash -c <command>`, and every other type runs the      *)
(* platform default shell: `cmd /C <command>` on Windows, `bash -c         *)
(* <command>` on every other host OS.                                      *)
C4_HeadlessInvocation ==
    (Dispatched /\ req.Headless)
    => cmd.Args =
         IF req.Type \in {"powershell", "ps"}
         THEN <<"powershell", "-Command", req.Command>>
         ELSE IF req.Type = "wsl"
         THEN <<"wsl", "--", "bash", "-c", req.Command>>
         ELSE IF goos = "windows"
         THEN <<"cmd", "/C", req.Command>>
         ELSE <<"bash", "-c", req.Command>>

(* C8: when verbose is false no trace is accumulated at any step and the   *)
(* Response has no debug text; when verbose is true the debug text of the  *)
(* Response is non-empty and contains the command text of the request.     *)
C8_VerboseTrace ==
    /\ ~req.Verbose => debugInfo = <<>> /\ resp.Debug = <<>>
    /\ (pc = "print" /\ req.Verbose)
       => /\ resp.Debug # <<>>
          /\ req.Command \in SeqToSet(resp.Debug)

C8_Witness ==
    /\ pc = "print"
    /\ req.Verbose
    /\ err # <<>>
    /\ req.Command \in SeqToSet(resp.Debug)

(* what executeCommand must return for the captured bytes and error *)
ResponseCarriesOutcome ==
    /\ resp.Output = TrimSpace(processOutput(output, FALSE, <<>>).text)
    /\ resp.Duration >= 0
    /\ (resp.Error # "") <=> (err # <<>>)
    /\ err # <<>> => resp.Error = err[1]

(* C9: whatever the outcome of the process (it could not be started, it    *)
(* exited with an error, it succeeded), executeCommand returns a Response  *)
(* with the normalised, trimmed output and a duration >= 0, whose error is *)
(* non-empty exactly when the process failed; the Response is printed and  *)
(* the loop is back at reading the next line.                              *)
C9_FailuresAbsorbed ==
    /\ [](pc = "print" => ResponseCarriesOutcome)
    /\ [][/\ pc = "wait" => pc' = "print"
          /\ pc = "print" => /\ pc' = "scan"
                             /\ stdout' = Append(stdout, Len(stdinLog))]_vars

C9_Witness ==
    /\ pc = "print"
    /\ err = SpawnError
    /\ resp.Error = SpawnError[1]
    /\ resp.Output = <<>>

HeadlessNote == "Running in headless mode (window hidden)\n"
HeadedNote == "Running in headed mode (new window created)\n"

-----------------------------------------------------------------------------
(* Properties of the normaliser, checked under SpecNorm *)

Marked(d) ==
    Len(d) >= 2 /\ <<d[1], d[2]>> \in {<<255, 254>>, <<254, 255>>}

(* zero bytes at odd 0-indexed positions *)
ZeroOdd(d) == Cardinality({i \in 0..(Len(d) - 1) : i % 2 = 1 /\ d[i + 1] = 0})

StripMark(d) == IF Marked(d) THEN SubSeq(d, 3, Len(d)) ELSE d

(* C5: isUTF16 is true exactly for a buffer that starts with a byte-order  *)
(* mark, or that has none, has an even length above 10, and has zero bytes *)
(* at strictly more than 3/10 of its odd positions.                        *)
C5_IsUTF16 ==
    utf16 <=> \/ Marked(data)
              \/ /\ ~Marked(data)
                 /\ Len(data) % 2 = 0
                 /\ Len(data) > 10
                 /\ 10 * ZeroOdd(data) > 3 * (Len(data) \div 2)

C5_Witness ==
    /\ ~Marked(data)
    /\ Len(data) = 12
    /\ ZeroOdd(data) = 2
    /\ utf16

(* C6: decoding a byte-order mark followed by the UTF-16 encoding of a     *)
(* text, in the byte order the mark announces, gives back the text; the    *)
(* mark adds no character.                                                 *)
C6_RoundTrip ==
    src.kind = "text" => decoded = RunesToString(src.text)

C6_Witness ==
    /\ src.kind = "text"
    /\ ~src.littleEndian
    /\ Len(src.text) >= 2
    /\ 128512 \in SeqToSet(src.text)
    /\ decoded = RunesToString(src.text)

OddAfterMark(d) == Len(StripMark(d)) % 2 = 1

(* C7 as claimed: when the byte count after the mark is odd, decodeUTF16   *)
(* returns the bytes it was given, unchanged.                              *)
C7_ReturnsGivenBytes ==
    (data # <<>> /\ OddAfterMark(data)) => decoded = data

(* C7: when the byte count after the mark is odd, decodeUTF16 pairs        *)
(* nothing and returns the bytes that follow the mark (all the bytes when  *)
(* there is no mark), unchanged.                                           *)
C7_OddPassThrough ==
    (data # <<>> /\ OddAfterMark(data)) => decoded = StripMark(data)

C7_Witness ==
    /\ Marked(data)
    /\ Len(data) = 5
    /\ decoded = SubSeq(data, 3, 5)


====
